---------------------------- MODULE Spec2Model ----------------------------
(***************************************************************************)
(* LazyMut<T, F, RawStdMutex> (src/src/lib.rs) over the poison flag        *)
(* (src/src/poison.rs) and the std-mutex adapter (src/src/std_lock.rs),    *)
(* built with feature "std"/"std_lock" and panic = "unwind".               *)
(*                                                                         *)
(* Threads share one cell.  Each thread is either in user code ("idle")    *)
(* or at a program point inside force_mut / is_poisoned.  User code may    *)
(* call get_mut, try_get_mut, is_poisoned, clear_mutex_poison, use or drop *)
(* a guard it holds, or panic.  A panic unwinds the frames that hold the   *)
(* thread's guards: they are dropped before the panic is caught.  Code run *)
(* by destructors during unwinding may itself call into the cell.          *)
(***************************************************************************)
EXTENDS Integers, Sequences, FiniteSets, TLC

\* ---- bounds of the model
NThreads == 2
MaxOps == 5
MaxGuards == 2

\* ---- the test's program constants
InitValue == 0
Delta == 100

Threads == 1..NThreads
NoThread == 0
TheInit == "f"
NoFn == "none"
NoTmp == -1

VARIABLES
    state,        \* LazyMut.state's data: the InitState
    failed,       \* LazyMut.poison_flag.failed
    inner,        \* RawStdMutex.0 (the OnceLock) is filled
    owner,        \* the thread holding Inner.lock, or NoThread
    slot,         \* Inner.guard: the saved std MutexGuard
    stdFailed,    \* the poison flag of Inner.lock (std::sync::Mutex)
    pc,           \* per thread: program point
    call,         \* per thread: the method it is in or has just returned from
    panicking,    \* per thread: std::thread::panicking()
    guards,       \* per thread: the live LazyMutGuards it owns
    tmp,          \* per thread: the value read by `*lock += 100`
    result,       \* per thread: outcome of the call it has just returned from
    ops,          \* operations user code may still start, over all threads
    initCalls,    \* how many times the initializer f was invoked
    initPanicked, \* the initializer panicked
    incs,         \* how many `*lock += 100` statements completed
    mark,         \* last poison-flag event: "none", "poisoned" (a guard was
                  \* dropped by a thread that began to unwind while holding
                  \* it), "cleared" (clear_mutex_poison on a flagged Init cell,
                  \* no thread unwinding then or since), "void" (a clear
                  \* after the initializer panicked)
    pre,          \* per thread: mark when its call started
    consumed,     \* into_inner(self) has consumed the cell
    ret,          \* what into_inner returned
    nested,       \* threads whose initializer is calling back into the cell
    allocs,       \* how many times init_inner_mutex ran
    held,         \* threads between a successful lock/try_lock and its unlock
    access,       \* threads that are writing or destroying Inner.guard
    setBy         \* the step that last turned the PoisonFlag from clear to set

vars == <<state, failed, inner, owner, slot, stdFailed, pc, call, panicking,
          guards, tmp, result, ops, initCalls, initPanicked, incs, mark, pre,
          consumed, ret, nested, allocs, held, access, setBy>>

\* ---- enum InitState<T, F>
Uninit(f) == [tag |-> "Uninit", f |-> f, data |-> 0]
InitOf(d) == [tag |-> "Init", f |-> NoFn, data |-> d]
Poisoned == [tag |-> "Poisoned", f |-> NoFn, data |-> 0]

\* ---- std_lock.rs
EmptySlot == [full |-> FALSE, panicking |-> FALSE]

\* save_guard: the guard of Inner.lock, with the panicking bit std records in it
SaveGuard(p) == [full |-> TRUE, panicking |-> p]

CanLockAlways(o) == TRUE
CanLockNever(o) == FALSE
\* Inner.lock.lock() returns, and Inner.lock.try_lock() succeeds, only when no
\* thread holds Inner.lock
CanLock(o) == o = NoThread

GetOrInitRacy(filled, n) == n + 1
\* self.0.get_or_init(init_inner_mutex): the number of allocations made once
\* the call has returned; the OnceLock runs init_inner_mutex only when empty
GetOrInit(filled, n) == IF filled THEN n ELSE n + 1

\* dropping the saved std MutexGuard: std poisons Inner.lock when the guard
\* was taken by a thread that was not panicking and is dropped by one that is
StdGuardDrop(sf, sl, nowPanicking) == sf \/ (~sl.panicking /\ nowPanicking)

\* ---- poison.rs
FlagGetOff(f) == FALSE
\* Flag::get
FlagGet(f) == f

FlagClearNoop(f) == f
\* Flag::clear
FlagClear(f) == FALSE

FlagDoneNever(f, g, nowPanicking) == f
FlagDoneAlways(f, g, nowPanicking) == IF nowPanicking THEN TRUE ELSE f
FlagDoneEager(f, g, nowPanicking) == IF ~g.panicking THEN TRUE ELSE f
\* Flag::done
FlagDone(f, g, nowPanicking) ==
    IF ~g.panicking /\ nowPanicking THEN TRUE ELSE f

\* Flag::guard + map_result: the guard and whether it comes wrapped in Err
FlagGuard(f, nowPanicking) ==
    [panicking |-> nowPanicking, err |-> FlagGet(f)]

\* ---- lib.rs
ReallyInitKeep(s) == s
\* really_init: core::mem::replace(state, InitState::Poisoned)
ReallyInitTaken(s) == Poisoned

ReallyInitSkip(s, d) == s
\* really_init: ptr::write(state, InitState::Init(data))
ReallyInitWrite(s, d) == InitOf(d)

MatchArmLenient(s) == IF s.tag = "Poisoned" THEN "Init" ELSE s.tag
\* force_mut: the arm `match state` takes
MatchArm(s) == s.tag

IntoInnerForce(s) ==
    CASE s.tag = "Init" -> [kind |-> "Ok", f |-> NoFn, data |-> s.data]
      [] s.tag = "Uninit" -> [kind |-> "Ok", f |-> NoFn, data |-> InitValue]
      [] OTHER -> [kind |-> "panic", f |-> NoFn, data |-> 0]
\* into_inner's match
IntoInnerResult(s) ==
    CASE s.tag = "Init" -> [kind |-> "Ok", f |-> NoFn, data |-> s.data]
      [] s.tag = "Uninit" -> [kind |-> "Err", f |-> s.f, data |-> 0]
      [] OTHER -> [kind |-> "panic", f |-> NoFn, data |-> 0]

NoRet == [kind |-> "none", f |-> NoFn, data |-> 0]

\* ---- history bookkeeping
\* a thread starts to unwind: nothing counts as "cleared" any more
Unwinds(p) == [u \in Threads |-> IF p[u] = "cleared" THEN "none" ELSE p[u]]
\* clear_mutex_poison ran: nothing counts as "poisoned" any more
Cleared(p) == [u \in Threads |-> IF p[u] = "poisoned" THEN "none" ELSE p[u]]

\* user code moves on: the outcome of its last call is history
Forget(f, t) == [f EXCEPT ![t] = "none"]

RemoveAt(s, i) == SubSeq(s, 1, i - 1) \o SubSeq(s, i + 1, Len(s))

Init ==
    /\ state = Uninit(TheInit)
    /\ failed = FALSE
    /\ inner = FALSE
    /\ owner = NoThread
    /\ slot = EmptySlot
    /\ stdFailed = FALSE
    /\ pc = [t \in Threads |-> "idle"]
    /\ call = [t \in Threads |-> "none"]
    /\ panicking = [t \in Threads |-> FALSE]
    /\ guards = [t \in Threads |-> <<>>]
    /\ tmp = [t \in Threads |-> NoTmp]
    /\ result = [t \in Threads |-> "none"]
    /\ ops = MaxOps
    /\ initCalls = 0
    /\ initPanicked = FALSE
    /\ incs = 0
    /\ mark = "none"
    /\ pre = [t \in Threads |-> "none"]
    /\ consumed = FALSE
    /\ ret = NoRet
    /\ nested = {}
    /\ allocs = 0
    /\ held = {}
    /\ access = {}
    /\ setBy = "none"

\* user code calls get_mut / try_get_mut / is_poisoned
Begin(t, c) ==
    /\ ~consumed
    /\ pc[t] = "idle"
    /\ ops > 0
    /\ c = "is_poisoned" \/ Len(guards[t]) < MaxGuards
    /\ pc' = [pc EXCEPT ![t] = "lock"]
    /\ call' = [call EXCEPT ![t] = c]
    /\ result' = [result EXCEPT ![t] = "none"]
    /\ ops' = ops - 1
    /\ pre' = [pre EXCEPT ![t] = mark]
    /\ UNCHANGED <<nested, access, setBy>>
    /\ UNCHANGED <<state, failed, inner, allocs, owner, slot, held, stdFailed, panicking,
                   guards, tmp, initCalls, initPanicked, incs, mark,
                   consumed, ret>>

\* self.state.lock(): RawStdMutex::lock
Lock(t) ==
    /\ pc[t] = "lock"
    /\ CanLock(owner)
    /\ inner' = TRUE
    /\ allocs' = GetOrInit(inner, allocs)
    /\ IF stdFailed
       THEN \* Err(_) => unreachable!(): the guard inside the error is dropped
            /\ panicking' = [panicking EXCEPT ![t] = TRUE]
            /\ pc' = [pc EXCEPT ![t] = "idle"]
            /\ result' = [result EXCEPT ![t] = "panic"]
            /\ pre' = Unwinds(pre)
            /\ mark' = IF mark = "cleared" THEN "none" ELSE mark
            /\ UNCHANGED <<owner, slot, held>>
       ELSE /\ owner' = t
            /\ slot' = SaveGuard(panicking[t])
            /\ held' = held \cup {t}
            /\ pc' = [pc EXCEPT ![t] =
                        IF call[t] = "is_poisoned" THEN "probe" ELSE "match"]
            /\ UNCHANGED <<panicking, result, pre, mark>>
    /\ UNCHANGED <<nested, access, setBy>>
    /\ UNCHANGED <<state, failed, stdFailed, call, guards, tmp, ops,
                   initCalls, initPanicked, incs, consumed, ret>>

\* force_mut: match state { ... }
Match(t) ==
    /\ pc[t] = "match"
    /\ CASE MatchArm(state) = "Init" ->
              /\ pc' = [pc EXCEPT ![t] = "guard"]
              /\ UNCHANGED <<state, owner, slot, held, stdFailed, panicking, result,
                             pre, mark>>
         [] MatchArm(state) = "Uninit" ->
              /\ state' = ReallyInitTaken(state)
              /\ pc' = [pc EXCEPT ![t] = "call_f"]
              /\ UNCHANGED <<owner, slot, held, stdFailed, panicking, result, pre,
                             mark>>
         [] OTHER ->
              \* lazy_mut_poisoned_init(): unwinding drops `lock`
              /\ panicking' = [panicking EXCEPT ![t] = TRUE]
              /\ stdFailed' = StdGuardDrop(stdFailed, slot, TRUE)
              /\ owner' = NoThread
              /\ slot' = EmptySlot
              /\ held' = held \ {t}
              /\ pc' = [pc EXCEPT ![t] = "idle"]
              /\ result' = [result EXCEPT ![t] = "panic"]
              /\ pre' = Unwinds(pre)
              /\ mark' = IF mark = "cleared" THEN "none" ELSE mark
              /\ UNCHANGED state
    /\ UNCHANGED <<nested, access, setBy>>
    /\ UNCHANGED <<failed, inner, allocs, call, guards, tmp, ops, initCalls,
                   initPanicked, incs, consumed, ret>>

\* really_init: let data = f(); ptr::write(state, Init(data))
CallF(t) ==
    /\ pc[t] = "call_f"
    /\ initCalls' = initCalls + 1
    /\ \/ /\ state' = ReallyInitWrite(state, InitValue)
          /\ pc' = [pc EXCEPT ![t] = "guard"]
          /\ UNCHANGED <<owner, slot, held, stdFailed, panicking, result,
                         initPanicked, pre, mark>>
       \/ \* f panics: unwinding drops `lock`
          /\ panicking' = [panicking EXCEPT ![t] = TRUE]
          /\ stdFailed' = StdGuardDrop(stdFailed, slot, TRUE)
          /\ owner' = NoThread
          /\ slot' = EmptySlot
          /\ held' = held \ {t}
          /\ initPanicked' = TRUE
          /\ pc' = [pc EXCEPT ![t] = "idle"]
          /\ result' = [result EXCEPT ![t] = "panic"]
          /\ pre' = Unwinds(pre)
          /\ mark' = IF mark = "cleared" THEN "none" ELSE mark
          /\ UNCHANGED state
    /\ UNCHANGED <<nested, access, setBy>>
    /\ UNCHANGED <<failed, inner, allocs, call, guards, tmp, ops, incs, consumed, ret>>

\* the initializer, running inside really_init, calls get_mut / try_get_mut on
\* the cell it is initializing: force_mut starts again on the same thread,
\* which still owns `lock`
InitReenters(t, c) ==
    /\ pc[t] = "call_f"
    /\ ops > 0
    /\ ops' = ops - 1
    /\ nested' = nested \cup {t}
    /\ call' = [call EXCEPT ![t] = c]
    /\ pc' = [pc EXCEPT ![t] = "lock"]
    /\ UNCHANGED <<state, failed, inner, allocs, owner, slot, held, stdFailed,
                   panicking, guards, tmp, result, initCalls, initPanicked,
                   incs, mark, pre, consumed, ret, access, setBy>>

\* force_mut: poison::map_result(self.poison_flag.guard(), ...), then `lock`
\* goes out of scope and force_mut returns
MakeGuard(t) ==
    /\ pc[t] = "guard"
    /\ LET g == FlagGuard(failed, panicking[t]) IN
       /\ guards' = [guards EXCEPT ![t] = Append(@, g)]
       /\ result' = [result EXCEPT ![t] = IF g.err THEN "err" ELSE "ok"]
       /\ pc' = [pc EXCEPT ![t] =
                   IF call[t] = "get_mut" /\ g.err THEN "unwrap" ELSE "idle"]
    /\ stdFailed' = StdGuardDrop(stdFailed, slot, panicking[t])
    /\ owner' = NoThread
    /\ slot' = EmptySlot
    /\ held' = held \ {t}
    /\ UNCHANGED <<nested, access, setBy>>
    /\ UNCHANGED <<state, failed, inner, allocs, call, panicking, tmp, ops, initCalls,
                   initPanicked, incs, mark, pre, consumed, ret>>

\* get_mut: .unwrap() of an Err panics; unwinding drops the guard in the error
Unwrap(t) ==
    /\ pc[t] = "unwrap"
    /\ LET n == Len(guards[t]) IN
       /\ failed' = FlagDone(failed, guards[t][n], TRUE)
       /\ guards' = [guards EXCEPT ![t] = SubSeq(@, 1, n - 1)]
       /\ mark' = IF ~guards[t][n].panicking THEN "poisoned"
                  ELSE IF mark = "cleared" THEN "none" ELSE mark
    /\ panicking' = [panicking EXCEPT ![t] = TRUE]
    /\ result' = [result EXCEPT ![t] = "panic"]
    /\ pc' = [pc EXCEPT ![t] = "idle"]
    /\ pre' = Unwinds(pre)
    /\ setBy' = IF ~failed /\ failed' THEN "unwrap" ELSE setBy
    /\ UNCHANGED <<nested, access>>
    /\ UNCHANGED <<state, inner, allocs, owner, slot, held, stdFailed, call, tmp, ops,
                   initCalls, initPanicked, incs, consumed, ret>>

\* is_poisoned: matches!(&*self.state.lock(), Poisoned) || self.poison_flag.get()
Probe(t) ==
    /\ pc[t] = "probe"
    /\ result' = [result EXCEPT ![t] =
                    IF state.tag = "Poisoned" \/ FlagGet(failed)
                    THEN "true" ELSE "false"]
    /\ stdFailed' = StdGuardDrop(stdFailed, slot, panicking[t])
    /\ owner' = NoThread
    /\ slot' = EmptySlot
    /\ held' = held \ {t}
    /\ pc' = [pc EXCEPT ![t] = "idle"]
    /\ UNCHANGED <<nested, access, setBy>>
    /\ UNCHANGED <<state, failed, inner, allocs, call, panicking, guards, tmp, ops,
                   initCalls, initPanicked, incs, mark, pre, consumed, ret>>

\* clear_mutex_poison
ClearMutexPoison(t) ==
    /\ ~consumed
    /\ pc[t] = "idle"
    /\ ops > 0
    /\ failed' = FlagClear(failed)
    /\ ops' = ops - 1
    /\ mark' = IF initPanicked THEN "void"
               ELSE IF /\ state.tag = "Init"
                       /\ failed \/ mark = "cleared"
                       /\ \A u \in Threads : ~panicking[u]
               THEN "cleared" ELSE "none"
    /\ pre' = Forget(Cleared(pre), t)
    /\ call' = Forget(call, t)
    /\ result' = Forget(result, t)
    /\ UNCHANGED <<nested, access, setBy>>
    /\ UNCHANGED <<state, inner, allocs, owner, slot, held, stdFailed, pc, panicking,
                   guards, tmp, initCalls, initPanicked, incs, consumed, ret>>

\* `*lock += 100`, first half: deref_mut and load
ReadValue(t) ==
    /\ pc[t] = "idle"
    /\ ops > 0
    /\ guards[t] # <<>>
    /\ tmp' = [tmp EXCEPT ![t] = state.data]
    /\ pc' = [pc EXCEPT ![t] = "add"]
    /\ ops' = ops - 1
    /\ call' = Forget(call, t)
    /\ result' = Forget(result, t)
    /\ pre' = Forget(pre, t)
    /\ UNCHANGED <<nested, access, setBy>>
    /\ UNCHANGED <<state, failed, inner, allocs, owner, slot, held, stdFailed, panicking,
                   guards, initCalls, initPanicked, incs, mark, consumed, ret>>

\* `*lock += 100`, second half: store
WriteValue(t) ==
    /\ pc[t] = "add"
    /\ state' = [state EXCEPT !.data = tmp[t] + Delta]
    /\ tmp' = [tmp EXCEPT ![t] = NoTmp]
    /\ incs' = incs + 1
    /\ pc' = [pc EXCEPT ![t] = "idle"]
    /\ UNCHANGED <<nested, access, setBy>>
    /\ UNCHANGED <<failed, inner, allocs, owner, slot, held, stdFailed, call, panicking,
                   guards, result, ops, initCalls, initPanicked, mark, pre,
                   consumed, ret>>

\* impl Drop for LazyMutGuard
DropGuard(t, i) ==
    /\ pc[t] = "idle"
    /\ i \in 1..Len(guards[t])
    /\ failed' = FlagDone(failed, guards[t][i], panicking[t])
    /\ guards' = [guards EXCEPT ![t] = RemoveAt(@, i)]
    /\ mark' = IF ~guards[t][i].panicking /\ panicking[t]
               THEN "poisoned" ELSE mark
    /\ call' = Forget(call, t)
    /\ result' = Forget(result, t)
    /\ pre' = Forget(pre, t)
    /\ setBy' = IF ~failed /\ failed' THEN "drop" ELSE setBy
    /\ UNCHANGED <<nested, access>>
    /\ UNCHANGED <<state, inner, allocs, owner, slot, held, stdFailed, pc, panicking,
                   tmp, ops, initCalls, initPanicked, incs, consumed, ret>>

\* user code panics
Panic(t) ==
    /\ ~consumed
    /\ pc[t] = "idle"
    /\ ops > 0
    /\ ~panicking[t]
    /\ panicking' = [panicking EXCEPT ![t] = TRUE]
    /\ ops' = ops - 1
    /\ pre' = Forget(Unwinds(pre), t)
    /\ mark' = IF mark = "cleared" THEN "none" ELSE mark
    /\ call' = Forget(call, t)
    /\ result' = Forget(result, t)
    /\ UNCHANGED <<nested, access, setBy>>
    /\ UNCHANGED <<state, failed, inner, allocs, owner, slot, held, stdFailed, pc, guards,
                   tmp, initCalls, initPanicked, incs, consumed, ret>>

\* the unwinding ends (catch_unwind, or the thread's entry point)
Catch(t) ==
    /\ pc[t] = "idle"
    /\ panicking[t]
    /\ guards[t] = <<>>
    /\ panicking' = [panicking EXCEPT ![t] = FALSE]
    /\ call' = Forget(call, t)
    /\ result' = Forget(result, t)
    /\ pre' = Forget(pre, t)
    /\ UNCHANGED <<nested, access, setBy>>
    /\ UNCHANGED <<state, failed, inner, allocs, owner, slot, held, stdFailed, pc, guards,
                   tmp, ops, initCalls, initPanicked, incs, mark, consumed,
                   ret>>

\* into_inner(self): the owner has the cell to itself
IntoInner ==
    /\ ~consumed
    /\ \A t \in Threads : pc[t] = "idle" /\ guards[t] = <<>>
    /\ consumed' = TRUE
    /\ ret' = IntoInnerResult(state)
    /\ UNCHANGED <<nested, access, setBy>>
    /\ UNCHANGED <<state, failed, inner, allocs, owner, slot, held, stdFailed, pc, call,
                   panicking, guards, tmp, result, ops, initCalls,
                   initPanicked, incs, mark, pre>>

Next ==
    \/ \E t \in Threads : \E c \in {"get_mut", "try_get_mut", "is_poisoned"} :
         Begin(t, c)
    \/ \E t \in Threads : Lock(t)
    \/ \E t \in Threads : Match(t)
    \/ \E t \in Threads : CallF(t)
    \/ \E t \in Threads : \E c \in {"get_mut", "try_get_mut"} : InitReenters(t, c)
    \/ \E t \in Threads : MakeGuard(t)
    \/ \E t \in Threads : Unwrap(t)
    \/ \E t \in Threads : Probe(t)
    \/ \E t \in Threads : ClearMutexPoison(t)
    \/ \E t \in Threads : ReadValue(t)
    \/ \E t \in Threads : WriteValue(t)
    \/ \E t \in Threads : \E i \in 1..MaxGuards : DropGuard(t, i)
    \/ \E t \in Threads : Panic(t)
    \/ \E t \in Threads : Catch(t)
    \/ IntoInner

Spec == Init /\ [][Next]_vars

\* ---- RawStdMutex used on its own, through lock_api::RawMutex
lazyVars == <<state, failed, guards, tmp, initCalls, initPanicked, incs, mark,
              consumed, ret, nested, setBy>>

\* threads inside lock / try_lock that own Inner.lock but have not returned
Saving == {t \in Threads : pc[t] \in {"r_save", "r_write"}}

\* a caller invokes lock / try_lock / unlock / is_locked; unlock only by a
\* thread whose lock / try_lock succeeded and is not yet matched
RawBegin(t, c) ==
    /\ pc[t] = "idle"
    /\ ops > 0
    /\ c = "unlock" => t \in held
    /\ ops' = ops - 1
    /\ call' = [call EXCEPT ![t] = c]
    /\ result' = [result EXCEPT ![t] = "none"]
    /\ pc' = [pc EXCEPT ![t] = IF c = "unlock" THEN "r_unlock" ELSE "r_get"]
    /\ pre' = [u \in Threads |->
                IF u = t
                THEN IF c # "is_locked" THEN "none"
                     ELSE IF \E v \in held \ {t} :
                                pc[v] \notin {"r_unlock", "r_drop"}
                     THEN "held"
                     ELSE IF ~inner /\ \A v \in Threads \ {t} :
                                         pc[v] = "idle" \/ call[v] = "is_locked"
                     THEN "fresh" ELSE "none"
                ELSE IF c = "unlock" /\ pre[u] = "held" THEN "none"
                ELSE IF c \in {"lock", "try_lock"} /\ pre[u] = "fresh"
                THEN "none" ELSE pre[u]]
    /\ UNCHANGED <<inner, allocs, owner, slot, held, access, stdFailed,
                   panicking>>
    /\ UNCHANGED lazyVars

\* lock / try_lock: self.0.get_or_init(init_inner_mutex)
RawGetOrInit(t) ==
    /\ pc[t] = "r_get"
    /\ call[t] \in {"lock", "try_lock"}
    /\ inner' = TRUE
    /\ allocs' = GetOrInit(inner, allocs)
    /\ pc' = [pc EXCEPT ![t] = "r_acquire"]
    /\ UNCHANGED <<owner, slot, held, access, stdFailed, call, panicking,
                   result, ops, pre>>
    /\ UNCHANGED lazyVars

\* lock: Inner.lock.lock(), then the match on its result
RawLock(t) ==
    /\ pc[t] = "r_acquire"
    /\ call[t] = "lock"
    /\ CanLock(owner)
    /\ IF stdFailed
       THEN \* Err(_) => unreachable!(): the guard inside the error is dropped
            /\ panicking' = [panicking EXCEPT ![t] = TRUE]
            /\ result' = [result EXCEPT ![t] = "panic"]
            /\ pc' = [pc EXCEPT ![t] = "idle"]
            /\ UNCHANGED owner
       ELSE /\ owner' = t
            /\ pc' = [pc EXCEPT ![t] = "r_save"]
            /\ UNCHANGED <<panicking, result>>
    /\ UNCHANGED <<inner, allocs, slot, held, access, stdFailed, call, ops,
                   pre>>
    /\ UNCHANGED lazyVars

\* try_lock: Inner.lock.try_lock(), then the match on its result
RawTryLock(t) ==
    /\ pc[t] = "r_acquire"
    /\ call[t] = "try_lock"
    /\ IF ~CanLock(owner)
       THEN \* Err(TryLockError::WouldBlock) => false
            /\ result' = [result EXCEPT ![t] = "false"]
            /\ pc' = [pc EXCEPT ![t] = "idle"]
            /\ UNCHANGED <<owner, panicking>>
       ELSE IF stdFailed
       THEN \* Err(TryLockError::Poisoned(_)) => unreachable!()
            /\ panicking' = [panicking EXCEPT ![t] = TRUE]
            /\ result' = [result EXCEPT ![t] = "panic"]
            /\ pc' = [pc EXCEPT ![t] = "idle"]
            /\ UNCHANGED owner
       ELSE /\ owner' = t
            /\ pc' = [pc EXCEPT ![t] = "r_save"]
            /\ UNCHANGED <<panicking, result>>
    /\ UNCHANGED <<inner, allocs, slot, held, access, stdFailed, call, ops,
                   pre>>
    /\ UNCHANGED lazyVars

\* save_guard: `this.guard.get()`, the start of the store to the slot
RawSaveBegin(t) ==
    /\ pc[t] = "r_save"
    /\ access' = access \cup {t}
    /\ pc' = [pc EXCEPT ![t] = "r_write"]
    /\ UNCHANGED <<inner, allocs, owner, slot, held, stdFailed, call,
                   panicking, result, ops, pre>>
    /\ UNCHANGED lazyVars

\* save_guard: the store `= MaybeUninit::new(extend_life(guard))` completes
\* and lock / try_lock returns
RawSaveEnd(t) ==
    /\ pc[t] = "r_write"
    /\ slot' = SaveGuard(panicking[t])
    /\ access' = access \ {t}
    /\ held' = held \cup {t}
    /\ result' = [result EXCEPT ![t] = "true"]
    /\ pc' = [pc EXCEPT ![t] = "idle"]
    /\ UNCHANGED <<inner, allocs, owner, stdFailed, call, panicking, ops, pre>>
    /\ UNCHANGED lazyVars

\* unlock: `&mut *...guard.get()`, the start of assume_init_drop
RawUnlockBegin(t) ==
    /\ pc[t] = "r_unlock"
    /\ access' = access \cup {t}
    /\ pc' = [pc EXCEPT ![t] = "r_drop"]
    /\ UNCHANGED <<inner, allocs, owner, slot, held, stdFailed, call,
                   panicking, result, ops, pre>>
    /\ UNCHANGED lazyVars

\* unlock: the MutexGuard in the slot is dropped, which releases Inner.lock
RawUnlockEnd(t) ==
    /\ pc[t] = "r_drop"
    /\ stdFailed' = StdGuardDrop(stdFailed, slot, panicking[t])
    /\ owner' = NoThread
    /\ slot' = EmptySlot
    /\ held' = held \ {t}
    /\ access' = access \ {t}
    /\ result' = [result EXCEPT ![t] = "done"]
    /\ pc' = [pc EXCEPT ![t] = "idle"]
    /\ UNCHANGED <<inner, allocs, call, panicking, ops, pre>>
    /\ UNCHANGED lazyVars

\* is_locked: `let Some(this) = self.0.get() else { return false }`
RawIsLockedGet(t) ==
    /\ pc[t] = "r_get"
    /\ call[t] = "is_locked"
    /\ IF inner
       THEN /\ pc' = [pc EXCEPT ![t] = "r_try"]
            /\ UNCHANGED result
       ELSE /\ pc' = [pc EXCEPT ![t] = "idle"]
            /\ result' = [result EXCEPT ![t] = "false"]
    /\ UNCHANGED <<inner, allocs, owner, slot, held, access, stdFailed, call,
                   panicking, ops, pre>>
    /\ UNCHANGED lazyVars

\* is_locked: this.lock.try_lock(); on Ok the temporary guard lives until the
\* end of the match
RawIsLockedTry(t) ==
    /\ pc[t] = "r_try"
    /\ IF ~CanLock(owner)
       THEN \* Err(TryLockError::WouldBlock) => true
            /\ result' = [result EXCEPT ![t] = "true"]
            /\ pc' = [pc EXCEPT ![t] = "idle"]
            /\ UNCHANGED <<owner, panicking>>
       ELSE IF stdFailed
       THEN \* Err(TryLockError::Poisoned(_)) => unreachable!()
            /\ panicking' = [panicking EXCEPT ![t] = TRUE]
            /\ result' = [result EXCEPT ![t] = "panic"]
            /\ pc' = [pc EXCEPT ![t] = "idle"]
            /\ UNCHANGED owner
       ELSE /\ owner' = t
            /\ pc' = [pc EXCEPT ![t] = "r_probed"]
            /\ UNCHANGED <<panicking, result>>
    /\ UNCHANGED <<inner, allocs, slot, held, access, stdFailed, call, ops,
                   pre>>
    /\ UNCHANGED lazyVars

\* is_locked: `Ok(_) => false`, the temporary guard is dropped
RawIsLockedEnd(t) ==
    /\ pc[t] = "r_probed"
    /\ owner' = NoThread
    /\ result' = [result EXCEPT ![t] = "false"]
    /\ pc' = [pc EXCEPT ![t] = "idle"]
    /\ UNCHANGED <<inner, allocs, slot, held, access, stdFailed, call,
                   panicking, ops, pre>>
    /\ UNCHANGED lazyVars

RawNext ==
    \/ \E t \in Threads :
         \E c \in {"lock", "try_lock", "unlock", "is_locked"} : RawBegin(t, c)
    \/ \E t \in Threads : RawGetOrInit(t)
    \/ \E t \in Threads : RawLock(t)
    \/ \E t \in Threads : RawTryLock(t)
    \/ \E t \in Threads : RawSaveBegin(t)
    \/ \E t \in Threads : RawSaveEnd(t)
    \/ \E t \in Threads : RawUnlockBegin(t)
    \/ \E t \in Threads : RawUnlockEnd(t)
    \/ \E t \in Threads : RawIsLockedGet(t)
    \/ \E t \in Threads : RawIsLockedTry(t)
    \/ \E t \in Threads : RawIsLockedEnd(t)
    \/ \E t \in Threads : Panic(t)
    \/ \E t \in Threads : Catch(t)

RawSpec == Init /\ [][RawNext]_vars

AllQuiet == \A t \in Threads : pc[t] = "idle" /\ guards[t] = <<>>

\* C1: when every thread has finished and dropped its guards, the value is
\* the initializer's value plus one Delta per completed `*lock += 100`:
\* no increment is lost.
C1_NoLostIncrement ==
    (AllQuiet /\ state.tag = "Init") => state.data = InitValue + Delta * incs

\* C2: the initializer is invoked at most once, and exactly once as soon as
\* any access has produced a guard.
C2_InitExactlyOnce ==
    /\ initCalls <= 1
    /\ \A t \in Threads :
         (guards[t] # <<>> \/ result[t] \in {"ok", "err"}) => initCalls = 1

\* two threads both obtained a guard from one run of the initializer
C2_Witness ==
    /\ initCalls = 1
    /\ \A t \in Threads : t \in {1, 2} => result[t] = "ok" /\ guards[t] # <<>>

\* C3: while a guard is live the adapter lock is held for it, so at most one
\* guard is live across all threads.
C3_GuardHoldsLock ==
    \A t \in Threads :
      guards[t] # <<>> =>
        /\ owner = t
        /\ Len(guards[t]) = 1
        /\ \A u \in Threads \ {t} : guards[u] = <<>>

\* C4: the adapter lock is never free while a thread that began to unwind
\* with a live guard has not yet recorded its poison in the flag.
C4_PoisonBeforeUnlock ==
    ~ /\ owner = NoThread
      /\ ~failed
      /\ \E t \in Threads : \E i \in 1..Len(guards[t]) :
           panicking[t] /\ ~guards[t][i].panicking

\* C5: once the initializer has panicked the state is Poisoned for good, the
\* initializer is not run again, no access holds or returns a guard, every
\* get_mut/try_get_mut that has returned to user code has panicked, and the
\* lock is held only by a thread that releases it with its next step, so no
\* caller waits forever; clear_mutex_poison (one of the steps) changes none
\* of it.
C5_InitPanicIsTerminal ==
    initPanicked =>
      /\ state = Poisoned
      /\ initCalls = 1
      /\ \A t \in Threads :
           /\ guards[t] = <<>>
           /\ pc[t] \in {"idle", "lock", "match", "probe"}
           /\ (pc[t] = "idle" /\ call[t] \in {"get_mut", "try_get_mut"})
                => result[t] = "panic"
      /\ owner # NoThread => pc[owner] \in {"match", "probe"}

\* after the initializer panicked and clear_mutex_poison was called, a
\* get_mut and a try_get_mut started by different threads both panicked
C5_Witness ==
    /\ initPanicked
    /\ \E t, u \in Threads :
         /\ t # u
         /\ pc[t] = "idle" /\ call[t] = "get_mut" /\ result[t] = "panic"
         /\ pc[u] = "idle" /\ call[u] = "try_get_mut" /\ result[u] = "panic"
         /\ pre[u] = "void"

\* C6: a try_get_mut that starts after a guard was destroyed by a thread
\* that began to unwind while holding it, with no clear_mutex_poison since
\* that destruction, returns the poisoned (Err) variant.
C6_PoisonedUntilCleared ==
    \A t \in Threads :
      (pc[t] = "idle" /\ call[t] = "try_get_mut" /\ pre[t] = "poisoned")
        => result[t] = "err"

\* both threads called try_get_mut after the poisoning and both got Err
C6_Witness ==
    \A t \in Threads :
      t \in {1, 2} =>
        /\ pc[t] = "idle" /\ call[t] = "try_get_mut"
        /\ pre[t] = "poisoned" /\ result[t] = "err"

\* C7: after clear_mutex_poison on a flagged Init cell, with no thread
\* unwinding at the clear or afterwards, a try_get_mut that starts then
\* returns Ok and an is_poisoned that starts then returns false.
C7_ClearRecovers ==
    \A t \in Threads :
      (pc[t] = "idle" /\ pre[t] = "cleared") =>
        /\ call[t] = "try_get_mut" => result[t] = "ok"
        /\ call[t] = "is_poisoned" => result[t] = "false"

\* after the clear one thread's try_get_mut returned Ok and another's
\* is_poisoned returned false
C7_Witness ==
    \E t, u \in Threads :
      /\ pc[t] = "idle" /\ pre[t] = "cleared"
      /\ call[t] = "try_get_mut" /\ result[t] = "ok"
      /\ pc[u] = "idle" /\ pre[u] = "cleared"
      /\ call[u] = "is_poisoned" /\ result[u] = "false"

\* C8: with the flag set on an Init cell, try_get_mut does not panic and
\* returns Err, every guard that came wrapped in Err points at Init data (it
\* can be read and written), and get_mut panics.
C8_PoisonIsAdvisory ==
    /\ \A t \in Threads :
         (pc[t] = "idle" /\ pre[t] = "poisoned") =>
           /\ call[t] = "try_get_mut" => result[t] = "err"
           /\ call[t] = "get_mut" => result[t] = "panic"
    /\ \A t \in Threads : \A i \in 1..Len(guards[t]) :
         guards[t][i].err => state.tag = "Init"

\* a thread is in the middle of `*lock += 100` through the guard it got
\* wrapped in Err, and another thread's get_mut has panicked on the flag
C8_Witness ==
    \E t, u \in Threads :
      /\ pc[t] = "add" /\ Len(guards[t]) = 1 /\ guards[t][1].err
      /\ pc[u] = "idle" /\ pre[u] = "poisoned"
      /\ call[u] = "get_mut" /\ result[u] = "panic"

\* C9 as stated: a try_get_mut that has reached the acquisition of the
\* adapter lock never has to wait for it.
C9_TryNeverWaits ==
    \A t \in Threads :
      (call[t] = "try_get_mut" /\ pc[t] = "lock") => ENABLED Lock(t)

\* C9 amended: try_get_mut acquires the adapter lock by the blocking
\* acquisition get_mut uses: while another thread holds the lock, a
\* try_get_mut caller stays at the acquisition and has no result.
C9_TryWaitsForLock ==
    [][\A t \in Threads :
         (call[t] = "try_get_mut" /\ pc[t] = "lock" /\ owner # NoThread)
           => (pc'[t] = "lock" /\ result'[t] = "none")]_vars

\* a try_get_mut is waiting while another thread runs the initializer
C9_Witness ==
    \E t \in Threads :
      /\ call[t] = "try_get_mut" /\ pc[t] = "lock"
      /\ owner \notin {NoThread, t}
      /\ pc[owner] = "call_f"

\* C10: into_inner returns Err(the original initializer) for a cell whose
\* initializer never ran, Ok(the stored value, as last written through a
\* guard) for an Init cell, panics for a Poisoned one, and does not run the
\* initializer.
C10_IntoInner ==
    consumed =>
      /\ state.tag = "Uninit" =>
           ret = [kind |-> "Err", f |-> TheInit, data |-> 0] /\ initCalls = 0
      /\ state.tag = "Init" =>
           ret = [kind |-> "Ok", f |-> NoFn, data |-> state.data]
           /\ initCalls = 1
      /\ state.tag = "Poisoned" =>
           ret.kind = "panic" /\ initCalls = 1 /\ initPanicked

\* into_inner returned a value that a guard had incremented
C10_Witness ==
    consumed /\ ret.kind = "Ok" /\ ret.data = InitValue + Delta /\ incs = 1

\* C12: the durable InitState only moves Uninit -> Init or Uninit ->
\* Poisoned and never leaves Init or a Poisoned left by a panicked
\* initializer; the Poisoned that really_init stores while the initializer
\* runs exists only while the initializing thread owns the lock, and no
\* thread examines the state (force_mut's match, is_poisoned) and finds
\* Poisoned unless the initializer has panicked.
C12_OneWay ==
    /\ [](/\ (state.tag = "Poisoned" /\ ~initPanicked) =>
               (owner # NoThread /\ (pc[owner] = "call_f" \/ owner \in nested))
          /\ \A t \in Threads :
               (pc[t] \in {"match", "probe"} /\ state.tag = "Poisoned")
                 => initPanicked)
    /\ [][/\ state.tag = "Init" => state'.tag = "Init"
          /\ (state.tag = "Poisoned" /\ initPanicked) => state' = Poisoned
          /\ (state.tag = "Poisoned" /\ state'.tag # "Poisoned") =>
               (state'.tag = "Init" /\ pc[owner] = "call_f"
                  /\ pc'[owner] = "guard")
          /\ (state.tag = "Uninit" /\ state'.tag # "Uninit") =>
               (state' = Poisoned /\ pc'[owner] = "call_f")]_vars

\* the initializer is running (the state holds the transient Poisoned) while
\* another thread's is_poisoned waits for the lock
C12_Witness ==
    \E t, u \in Threads :
      /\ pc[t] = "call_f" /\ owner = t
      /\ state = Poisoned /\ ~initPanicked
      /\ pc[u] = "lock" /\ call[u] = "is_poisoned"

C14_OneGuardPerThread ==
    \A t \in Threads :
      /\ Len(guards[t]) <= 1
      /\ (guards[t] # <<>> /\ pc[t] = "lock"
            /\ call[t] \in {"get_mut", "try_get_mut"}) => ~ENABLED Lock(t)

\* C17: the flag goes from clear to set only in a step that destroys a guard
\* whose token recorded "not unwinding" on a thread that is unwinding at the
\* destruction; no other step (a normal destruction, the destruction of a
\* guard taken while unwinding, a panic of the initializer) sets it.
C17_FlagSetOnlyByUnwindingDrop ==
    [][(~failed /\ failed') =>
         \E t \in Threads : \E i \in 1..Len(guards[t]) :
           /\ ~guards[t][i].panicking
           /\ panicking'[t]
           /\ guards'[t] = RemoveAt(guards[t], i)]_vars

\* the flag was set by a guard's destruction while a second thread, which
\* took its guard when already unwinding, has dropped it without effect
C17_Witness ==
    /\ failed /\ setBy = "drop"
    /\ \E t, u \in Threads :
         /\ t # u
         /\ panicking[t] /\ guards[t] = <<>>
         /\ panicking[u] /\ guards[u] = <<>> /\ pc[u] = "idle"

\* C18: whenever a thread has a guard (Ok or inside a poison error), or is
\* about to be given one, the InitState is Init.
C18_GuardMeansInit ==
    \A t \in Threads :
      (guards[t] # <<>> \/ pc[t] \in {"guard", "unwrap", "add"})
        => state.tag = "Init"

\* one thread holds a guard that came inside a poison error while another
\* holds one that came as Ok
C18_Witness ==
    \E t, u \in Threads :
      /\ Len(guards[t]) = 1 /\ guards[t][1].err
      /\ Len(guards[u]) = 1 /\ ~guards[u][1].err

\* C20 as stated: the flag goes from clear to set only when user code that
\* is unwinding destroys a guard; a panicking get_mut never sets it.
C20_OnlyUserUnwindingSets ==
    [][(~failed /\ failed') =>
         \E t \in Threads :
           /\ pc[t] = "idle" /\ panicking[t]
           /\ Len(guards'[t]) < Len(guards[t])]_vars

\* C20 amended: the flag goes from clear to set only when user code that is
\* unwinding destroys a guard, or when a get_mut that was handed its guard
\* inside a poison error panics in unwrap after the flag was cleared: the
\* guard inside the error is destroyed by the unwinding get_mut.
C20_SetByUnwindingOrUnwrap ==
    [][(~failed /\ failed') =>
         \E t \in Threads :
           \/ /\ pc[t] = "idle" /\ panicking[t]
              /\ Len(guards'[t]) < Len(guards[t])
           \/ /\ pc[t] = "unwrap" /\ call[t] = "get_mut"
              /\ guards[t][Len(guards[t])].err
              /\ ~guards[t][Len(guards[t])].panicking
              /\ result'[t] = "panic"
              /\ Len(guards'[t]) < Len(guards[t])]_vars

\* a get_mut panicked on a flag that clear_mutex_poison had meanwhile
\* cleared, and its unwinding set the flag again
C20_Witness ==
    /\ failed /\ setBy = "unwrap"
    /\ \E t \in Threads :
         pc[t] = "idle" /\ call[t] = "get_mut" /\ result[t] = "panic"

\* C11: an is_locked called while the OnceLock is empty and no lock /
\* try_lock is in progress returns false and allocates nothing; an is_locked
\* called and completed while another thread is between its successful
\* lock / try_lock and the call of the matching unlock returns true.
C11_IsLocked ==
    \A t \in Threads :
      (pc[t] = "idle" /\ call[t] = "is_locked") =>
        /\ pre[t] = "fresh" => (result[t] = "false" /\ ~inner /\ allocs = 0)
        /\ pre[t] = "held" => (result[t] = "true" /\ held \ {t} # {})

\* a second thread's is_locked has returned true while the first thread,
\* whose try_lock succeeded, has not unlocked
C11_Witness ==
    \E t, u \in Threads :
      /\ t # u
      /\ held = {t} /\ pc[t] = "idle" /\ call[t] = "try_lock"
      /\ pc[u] = "idle" /\ call[u] = "is_locked"
      /\ pre[u] = "held" /\ result[u] = "true"

\* C15: when unlock is only called by the thread whose lock / try_lock is
\* outstanding, at most one thread is between a successful lock / try_lock
\* and the end of its unlock, that thread owns Inner.lock, and only a thread
\* that owns Inner.lock stores to or destroys the slot, so no two threads
\* access the slot at once.
C15_OneHolderOneWriter ==
    /\ Cardinality(held \cup Saving) <= 1
    /\ Cardinality(access) <= 1
    /\ \A t \in held \cup Saving \cup access : owner = t
    /\ slot.full <=> held # {}

\* one thread is destroying the guard in the slot while another thread's
\* lock waits for Inner.lock and has not touched the slot
C15_Witness ==
    \E t, u \in Threads :
      /\ t # u
      /\ access = {t} /\ pc[t] = "r_drop" /\ slot.full
      /\ pc[u] = "r_acquire" /\ call[u] = "lock"

\* C16: init_inner_mutex runs at most once per adapter, exactly once as soon
\* as a lock / try_lock is past get_or_init, and every operation that works
\* on a backing lock works on the one allocation the OnceLock holds.
C16_OneAllocation ==
    /\ allocs <= 1
    /\ inner <=> allocs = 1
    /\ (owner # NoThread \/ slot.full \/ stdFailed) => inner
    /\ \A t \in Threads :
         pc[t] \in {"r_acquire", "r_save", "r_write", "r_unlock", "r_drop",
                    "r_try", "r_probed"} => allocs = 1

\* both threads went through get_or_init for their first lock / try_lock:
\* one owns the backing lock, the other waits for it, one allocation exists
C16_Witness ==
    \E t, u \in Threads :
      /\ t # u
      /\ allocs = 1
      /\ owner = t /\ pc[t] = "r_save" /\ call[t] = "try_lock"
      /\ pc[u] = "r_acquire" /\ call[u] = "lock"
      /\ held = {}

\* C19 as stated: a try_lock returns false only while some thread's lock /
\* try_lock has acquired the backing lock and is not yet matched by unlock.
C19_TryLockFailsOnlyWhenHeld ==
    [][\A t \in Threads :
         (pc[t] = "r_acquire" /\ call[t] = "try_lock"
            /\ result'[t] = "false")
           => held \cup Saving # {}]_vars

\* C19 amended: a try_lock returns false only while some thread owns
\* Inner.lock: a thread whose lock / try_lock is outstanding, or a thread
\* inside is_locked, between the try_lock of its probe and the drop of the
\* probe's guard.
C19_TryLockFailsOnlyWhenOwned ==
    [][\A t \in Threads :
         (pc[t] = "r_acquire" /\ call[t] = "try_lock"
            /\ result'[t] = "false")
           => /\ owner \notin {NoThread, t} \/ t \in held
              /\ \/ held \cup Saving # {}
                 \/ pc[owner] = "r_probed" /\ call[owner] = "is_locked"]_vars

\* a try_lock has returned false although no lock / try_lock is outstanding:
\* another thread's is_locked owns Inner.lock for its probe
C19_Witness ==
    \E t, u \in Threads :
      /\ pc[t] = "idle" /\ call[t] = "try_lock" /\ result[t] = "false"
      /\ pc[u] = "r_probed" /\ owner = u
      /\ held = {} /\ Saving = {}

=============================================================================
